---- MODULE Spec2Model ----
(***************************************************************************)
(* Upload-and-analyze pipeline of the PFM auditing service.                *)
(*                                                                         *)
(*   app/services/document_loader.py  DocumentLoaderService (the second,   *)
(*                                    effective definition of the class)   *)
(*   app/api/routes/upload.py         analyze_uploaded_document            *)
(*                                                                         *)
(* Strings are sequences of one-character strings, so that suffix          *)
(* extraction, lower-casing and whitespace normalisation are computed the  *)
(* way the Python code computes them.                                      *)
(***************************************************************************)
EXTENDS Integers, Sequences, FiniteSets, TLC

VARIABLES
    pc,              \* position of the request in analyze_uploaded_document
    req,             \* the request: file.filename, len(file_content), recipient_email
    fname,           \* the filename handed to process_uploaded_file
    validation,      \* result of validate_file
    filepath,        \* path returned by save_upload
    document,        \* what the extraction strategies do on the saved file
    extracted_text,  \* normalised text returned by extract_text
    pending,         \* exception in flight inside process_uploaded_file
    metadata,        \* metadata dict of process_uploaded_file
    verdict,         \* analysis_result
    visualizations,  \* local variable visualizations
    email_status,    \* local variable email_status
    response,        \* what the caller receives
    log,             \* stages run for the request, with their outcome
    calls,           \* invocations of the external collaborators
    uploads,         \* files of the uploads directory
    now,             \* wall clock, in seconds
    norm,            \* a call of normalize_text: its argument and results
    sweep,           \* a call of cleanup_old_files
    batch,           \* further uploads going through process_uploaded_file
    script           \* examples/run_email_headless_timeout.py: main and its sender thread

\* What a request of analyze_uploaded_document leaves alone.
aux == <<norm, sweep, batch, script>>

vars == <<pc, req, fname, validation, filepath, document, extracted_text, pending,
          metadata, verdict, visualizations, email_status, response,
          log, calls, uploads, now, norm, sweep, batch, script>>

\* Python's None, for values that are otherwise records.
None == [none |-> TRUE]
\* Python's None, for values that are otherwise strings.
NoneStr == "None"

\* Largest value of the wall clock (seconds) explored.
MaxClock == 1

-----------------------------------------------------------------------------
(* String helpers *)

Rep(c, n) == [i \in 1..n |-> c]

\* str.lower() on the letters used by the model.
LowerChar(c) ==
    CASE c = "P" -> "p" [] c = "D" -> "d" [] c = "F" -> "f" [] c = "T" -> "t"
      [] c = "X" -> "x" [] c = "O" -> "o" [] c = "C" -> "c" [] c = "E" -> "e"
      [] OTHER -> c

Lower(s) == [i \in 1..Len(s) |-> LowerChar(s[i])]

\* str.rfind(c): the last index of c in s, 0 when there is none.
RFind(s, c) ==
    LET I == {i \in 1..Len(s) : s[i] = c}
    IN  IF I = {} THEN 0 ELSE CHOOSE i \in I : \A j \in I : j <= i

\* PurePath.name: the last component of the path.
PathName(s) == SubSeq(s, RFind(s, "/") + 1, Len(s))

\* PurePath.suffix: the part of the name from its last dot on, empty when the
\* name has no dot, starts with its only dot or ends with a dot.
PathSuffix(s) ==
    LET name == PathName(s)
        i    == RFind(name, ".")
    IN  IF 1 < i /\ i < Len(name) THEN SubSeq(name, i, Len(name)) ELSE <<>>

\* PurePath.stem: the name without its suffix.
PathStem(s) ==
    LET name == PathName(s)
        i    == RFind(name, ".")
    IN  IF 1 < i /\ i < Len(name) THEN SubSeq(name, 1, i - 1) ELSE name

-----------------------------------------------------------------------------
(* DocumentLoaderService: constants and validation *)

SUPPORTED_EXTENSIONS ==
    { <<".", "p", "d", "f">>, <<".", "d", "o", "c", "x">>, <<".", "t", "x", "t">> }

MAX_FILE_SIZE_BYTES == 10 * 1024 * 1024

ReasonUnsupported == "Unsupported file type"
ReasonTooLarge    == "File too large"
ReasonEmpty       == "File is empty"

\* validate_file without the check for an empty file.
validate_file_NoEmptyCheck(filename, file_size) ==
    LET file_ext == Lower(PathSuffix(filename))
    IN  IF file_ext \notin SUPPORTED_EXTENSIONS
          THEN [ok |-> FALSE, reason |-> ReasonUnsupported]
        ELSE IF file_size > MAX_FILE_SIZE_BYTES
          THEN [ok |-> FALSE, reason |-> ReasonTooLarge]
        ELSE [ok |-> TRUE, reason |-> NoneStr]

\* validate_file without the check of the maximum size.
validate_file_NoSizeLimit(filename, file_size) ==
    LET file_ext == Lower(PathSuffix(filename))
    IN  IF file_ext \notin SUPPORTED_EXTENSIONS
          THEN [ok |-> FALSE, reason |-> ReasonUnsupported]
        ELSE IF file_size = 0
          THEN [ok |-> FALSE, reason |-> ReasonEmpty]
        ELSE [ok |-> TRUE, reason |-> NoneStr]

\* validate_file checking the size before the extension.
validate_file_SizeFirst(filename, file_size) ==
    LET file_ext == Lower(PathSuffix(filename))
    IN  IF file_size > MAX_FILE_SIZE_BYTES
          THEN [ok |-> FALSE, reason |-> ReasonTooLarge]
        ELSE IF file_size = 0
          THEN [ok |-> FALSE, reason |-> ReasonEmpty]
        ELSE IF file_ext \notin SUPPORTED_EXTENSIONS
          THEN [ok |-> FALSE, reason |-> ReasonUnsupported]
        ELSE [ok |-> TRUE, reason |-> NoneStr]

\* validate_file with an exclusive maximum size.
validate_file_ExclusiveBound(filename, file_size) ==
    LET file_ext == Lower(PathSuffix(filename))
    IN  IF file_ext \notin SUPPORTED_EXTENSIONS
          THEN [ok |-> FALSE, reason |-> ReasonUnsupported]
        ELSE IF file_size >= MAX_FILE_SIZE_BYTES
          THEN [ok |-> FALSE, reason |-> ReasonTooLarge]
        ELSE IF file_size = 0
          THEN [ok |-> FALSE, reason |-> ReasonEmpty]
        ELSE [ok |-> TRUE, reason |-> NoneStr]

validate_file(filename, file_size) ==
    LET file_ext == Lower(PathSuffix(filename))
    IN  IF file_ext \notin SUPPORTED_EXTENSIONS
          THEN [ok |-> FALSE, reason |-> ReasonUnsupported]
        ELSE IF file_size > MAX_FILE_SIZE_BYTES
          THEN [ok |-> FALSE, reason |-> ReasonTooLarge]
        ELSE IF file_size = 0
          THEN [ok |-> FALSE, reason |-> ReasonEmpty]
        ELSE [ok |-> TRUE, reason |-> NoneStr]

-----------------------------------------------------------------------------
(* Text normalisation *)

NL  == "\n"
SP  == " "
TAB == "\t"

\* Characters str.strip() removes.
IsSpace(c) == c \in {SP, TAB, NL, "\r"}

RECURSIVE Split(_, _)
\* str.split(sep) for a one-character separator.
Split(s, sep) ==
    LET I == {i \in 1..Len(s) : s[i] = sep}
    IN  IF I = {} THEN <<s>>
        ELSE LET i == CHOOSE k \in I : \A j \in I : k <= j
             IN  <<SubSeq(s, 1, i - 1)>> \o Split(SubSeq(s, i + 1, Len(s)), sep)

RECURSIVE Join(_, _)
\* sep.join(parts)
Join(parts, sep) ==
    IF parts = <<>> THEN <<>>
    ELSE IF Len(parts) = 1 THEN parts[1]
    ELSE parts[1] \o sep \o Join(Tail(parts), sep)

\* str.strip()
Strip(s) ==
    LET I == {i \in 1..Len(s) : ~IsSpace(s[i])}
    IN  IF I = {} THEN <<>>
        ELSE SubSeq(s, CHOOSE i \in I : \A j \in I : i <= j,
                       CHOOSE i \in I : \A j \in I : j <= i)

\* re.sub(r' +', ' ', s): every maximal run of spaces becomes one space.
CollapseSpaces(s) ==
    SelectSeq([i \in 1..Len(s) |->
                  IF s[i] = SP /\ i > 1 /\ s[i - 1] = SP THEN <<>> ELSE <<s[i]>>],
              LAMBDA x : x # <<>>)

Flatten(cs) == [i \in 1..Len(cs) |-> cs[i][1]]

\* normalize_text without the collapsing of runs of spaces.
normalize_text_NoCollapse(text) ==
    IF text = <<>> THEN <<>>
    ELSE LET stripped == [i \in 1..Len(Split(text, NL)) |-> Strip(Split(text, NL)[i])]
             lines    == SelectSeq(stripped, LAMBDA l : l # <<>>)
             normalized == Join(lines, <<NL>>)
         IN  Strip(normalized)

\* normalize_text dropping the empty lines before it strips the lines.
normalize_text_DropsBeforeStrip(text) ==
    IF text = <<>> THEN <<>>
    ELSE LET kept  == SelectSeq(Split(text, NL), LAMBDA l : l # <<>>)
             lines == [i \in 1..Len(kept) |-> Strip(kept[i])]
             normalized == Join(lines, <<NL>>)
         IN  Strip(Flatten(CollapseSpaces(normalized)))

normalize_text(text) ==
    IF text = <<>> THEN <<>>
    ELSE LET stripped == [i \in 1..Len(Split(text, NL)) |-> Strip(Split(text, NL)[i])]
             lines    == SelectSeq(stripped, LAMBDA l : l # <<>>)
             normalized == Join(lines, <<NL>>)
         IN  Strip(Flatten(CollapseSpaces(normalized)))

-----------------------------------------------------------------------------
(* Text extraction.  A document is described by what each extraction        *)
(* strategy does on it: whether it raises, and the text pieces it yields.   *)

Exc(type, msg) == [type |-> type, msg |-> msg]

\* An exception raised while others were being handled: its message, and
\* the messages of the exceptions Python chains to it (__context__).
ChainedExc(type, msg, context) == [type |-> type, msg |-> msg, context |-> context]

Ok(text)   == [ok |-> TRUE, text |-> text, exc |-> None]
Raised(e)  == [ok |-> FALSE, text |-> <<>>, exc |-> e]

NonEmpty(parts) == SelectSeq(parts, LAMBDA t : t # <<>>)

\* extract_text_from_pdf whose fallback appends to the pages the primary
\* strategy collected before it failed.
extract_text_from_pdf_KeepsPrimaryPages(doc) ==
    IF ~doc.primary.raises
      THEN Ok(Join(NonEmpty(doc.primary.parts), <<NL, NL>>))
    ELSE IF ~doc.fallback.raises
      THEN Ok(Join(NonEmpty(doc.primary.parts) \o doc.fallback.parts, <<NL, NL>>))
    ELSE Raised(ChainedExc("Exception", <<"Failed to extract PDF text", doc.fallback.cause>>,
                           <<doc.fallback.cause, doc.primary.cause>>))

\* extract_text_from_pdf: PyPDF2 page by page, keeping the pages that yield
\* text; on any error the LangChain loader's page contents replace them.
extract_text_from_pdf(doc) ==
    IF ~doc.primary.raises
      THEN Ok(Join(NonEmpty(doc.primary.parts), <<NL, NL>>))
    ELSE IF ~doc.fallback.raises
      THEN Ok(Join(doc.fallback.parts, <<NL, NL>>))
    ELSE Raised(ChainedExc("Exception", <<"Failed to extract PDF text", doc.fallback.cause>>,
                           <<doc.fallback.cause, doc.primary.cause>>))

\* extract_text_from_docx: python-docx paragraphs that are not blank; on any
\* error the LangChain loader's contents.
extract_text_from_docx(doc) ==
    IF ~doc.primary.raises
      THEN Ok(Join(SelectSeq(doc.primary.parts, LAMBDA t : Strip(t) # <<>>), <<NL, NL>>))
    ELSE IF ~doc.fallback.raises
      THEN Ok(Join(doc.fallback.parts, <<NL, NL>>))
    ELSE Raised(ChainedExc("Exception", <<"Failed to extract DOCX text", doc.fallback.cause>>,
                           <<doc.fallback.cause, doc.primary.cause>>))

ALT_ENCODINGS == <<"latin-1", "cp1252", "iso-8859-1">>

RECURSIVE TryEncodings(_, _)
\* The loop over the alternate encodings: the first that decodes returns.
TryEncodings(doc, encs) ==
    IF encs = <<>> THEN [raises |-> TRUE, text |-> <<>>]
    ELSE IF doc.decode[Head(encs)].raises THEN TryEncodings(doc, Tail(encs))
    ELSE doc.decode[Head(encs)]

\* extract_text_from_txt: UTF-8, then the alternate encodings, then the
\* autodetecting loader.
extract_text_from_txt(doc) ==
    IF ~doc.decode["utf-8"].raises THEN Ok(doc.decode["utf-8"].text)
    ELSE IF ~TryEncodings(doc, ALT_ENCODINGS).raises
      THEN Ok(TryEncodings(doc, ALT_ENCODINGS).text)
    ELSE IF ~doc.fallback.raises
      THEN Ok(Join(doc.fallback.parts, <<NL, NL>>))
    ELSE Raised(ChainedExc("Exception", <<"Failed to extract TXT text", doc.fallback.cause>>,
                           <<doc.fallback.cause, "UnicodeDecodeError">>))

\* extract_text dispatching on the suffix as it is written, without lower().
extract_text_CaseSensitive(path_ext, doc) ==
    LET r == IF path_ext = <<".", "p", "d", "f">> THEN extract_text_from_pdf(doc)
             ELSE IF path_ext = <<".", "d", "o", "c", "x">> THEN extract_text_from_docx(doc)
             ELSE IF path_ext = <<".", "t", "x", "t">> THEN extract_text_from_txt(doc)
             ELSE Raised(Exc("ValueError", <<"Unsupported file type">>))
    IN  IF r.ok THEN Ok(normalize_text(r.text)) ELSE r

\* extract_text: dispatch on the lower-cased suffix of the path, then normalise.
extract_text(path_ext, doc) ==
    LET file_ext == Lower(path_ext)
        r == IF file_ext = <<".", "p", "d", "f">> THEN extract_text_from_pdf(doc)
             ELSE IF file_ext = <<".", "d", "o", "c", "x">> THEN extract_text_from_docx(doc)
             ELSE IF file_ext = <<".", "t", "x", "t">> THEN extract_text_from_txt(doc)
             ELSE Raised(Exc("ValueError", <<"Unsupported file type">>))
    IN  IF r.ok THEN Ok(normalize_text(r.text)) ELSE r

-----------------------------------------------------------------------------
(* Inputs *)

PDF   == <<".", "p", "d", "f">>
DOCX  == <<".", "d", "o", "c", "x">>
TXT   == <<".", "t", "x", "t">>

\* file.filename of the upload; <<>> is a missing filename.
Filenames ==
    { <<>>,
      <<"a">> \o PDF, <<"a", ".", "P", "D", "F">>, <<"a", ".", "P", "d", "f">>,
      <<"a">> \o DOCX, <<"a", ".", "D", "o", "c", "X">>,
      <<"a">> \o TXT, <<"a", ".", "T", "X", "T">>,
      <<"a">>, <<"a", ".">>, PDF, <<"a", ".", "e", "x", "e">>,
      <<"a">> \o PDF \o <<".", "e", "x", "e">>,
      <<"a", ".", "e", "x", "e">> \o TXT,
      <<"d", "/", "a">> \o PDF,
      <<"a">> \o PDF \o <<"x">> }

\* len(file_content)
Sizes == {0, 1, 60, MAX_FILE_SIZE_BYTES, MAX_FILE_SIZE_BYTES + 1}

\* recipient_email; NoneStr when the form field is not supplied.
Recipients == {NoneStr, "auditor@example.org"}

T49     == Rep("a", 49)
T50     == Rep("a", 50)
\* 55 raw characters, 50 once normalised
Messy50 == <<SP>> \o Rep("a", 25) \o <<SP, SP>> \o Rep("b", 24) \o <<NL, NL, SP>>
\* 54 raw characters, 49 once normalised
Messy49 == Rep("a", 24) \o <<SP, SP, SP>> \o Rep("b", 24) \o <<NL, TAB, NL>>
Blank60 == Rep(SP, 59) \o <<NL>>
Half    == Rep("c", 25)

Strategy(raises, parts, cause) == [raises |-> raises, parts |-> parts, cause |-> cause]

\* Documents with a primary and a fallback strategy (PDF, DOCX).
PagedDocs ==
    { [primary |-> Strategy(FALSE, <<T50>>, NoneStr),
       fallback |-> Strategy(FALSE, <<T50>>, NoneStr)],
      [primary |-> Strategy(FALSE, <<Half, <<>>, Half>>, NoneStr),
       fallback |-> Strategy(FALSE, <<Half, <<>>, Half>>, NoneStr)],
      [primary |-> Strategy(FALSE, <<Messy49>>, NoneStr),
       fallback |-> Strategy(FALSE, <<Messy49>>, NoneStr)],
      [primary |-> Strategy(FALSE, <<<<>>, <<>>>>, NoneStr),
       fallback |-> Strategy(FALSE, <<T50>>, NoneStr)],
      [primary |-> Strategy(TRUE, <<T50>>, "primary: corrupt page"),
       fallback |-> Strategy(FALSE, <<Messy50>>, NoneStr)],
      [primary |-> Strategy(TRUE, <<>>, "primary: not a document"),
       fallback |-> Strategy(TRUE, <<>>, "fallback: not a document")] }

Decoded(text) == [raises |-> FALSE, text |-> text]
Undecodable   == [raises |-> TRUE, text |-> <<>>]

\* latin-1 and iso-8859-1 map every byte to a character, so they decode
\* every file.
Decodings(utf8, other) ==
    [enc \in {"utf-8", "latin-1", "cp1252", "iso-8859-1"} |->
        IF enc = "utf-8" THEN utf8 ELSE other]

TxtDocs ==
    { [decode |-> Decodings(Decoded(t), Decoded(t)),
       fallback |-> Strategy(FALSE, <<t>>, NoneStr)] :
         t \in {T49, T50, Messy50, Messy49, Blank60, <<>>} }
    \cup
    { [decode |-> Decodings(Undecodable, Decoded(T50)),
       fallback |-> Strategy(FALSE, <<T50>>, NoneStr)] }

RECURSIVE TotalLen(_)
\* Number of characters of a sequence of text pieces.
TotalLen(parts) == IF parts = <<>> THEN 0 ELSE Len(Head(parts)) + TotalLen(Tail(parts))

\* Documents a saved file with the given suffix and size can be: a file holds
\* at least as many bytes as the text read from it has characters.
DocsFor(ext, size) ==
    IF Lower(ext) = TXT
      THEN {d \in TxtDocs : Len(d.decode["latin-1"].text) <= size}
      ELSE {d \in PagedDocs : /\ TotalLen(d.primary.parts) <= size
                              /\ TotalLen(d.fallback.parts) <= size}

Flag(category, amount) ==
    [category |-> category, severity |-> "high", description |-> "d",
     evidence |-> "e", confidence |-> 1, amount_involved |-> amount]

\* Verdicts of the analyzer (AnalysisVerdict of the data model).
Verdicts ==
    { [risk_level |-> "Low", summary |-> "nothing found", list_of_flags |-> <<>>,
       recommendations |-> <<>>, total_flagged_amount |-> 0,
       document_metadata |-> [model |-> "m"]],
      [risk_level |-> "High", summary |-> "duplicate invoice",
       list_of_flags |-> <<Flag("duplicate", 100)>>,
       recommendations |-> <<"review">>, total_flagged_amount |-> 100,
       document_metadata |-> [model |-> "m"]] }

Causes == {"connection refused", "timed out"}

DashboardPaths == {"charts/dashboard.png"}

\* Dicts the mailer returns: a delivery outcome with its success flag, an
\* optional message and, on failure, the error; or a dict without the flag.
MailerReturns ==
    { [success |-> TRUE, message |-> "Report sent"],
      [success |-> TRUE],
      [message |-> "malformed"] }
    \cup { [success |-> FALSE, message |-> "Failed to send email", error |-> c] : c \in Causes }
    \cup { [success |-> FALSE, error |-> c] : c \in Causes }

-----------------------------------------------------------------------------
(* analyze_uploaded_document, one request *)

Entry(stage, outcome) == [stage |-> stage, outcome |-> outcome]

HTTPException(code, detail) == [status |-> code, detail |-> detail, result |-> None]

\* ValueError and its subclasses, which the route's first except clause catches.
IsValueError(e) == e.type \in {"ValueError", "UnicodeDecodeError"}

\* No request has arrived.
Idle ==
    /\ pc = "idle"
    /\ req = None
    /\ fname = <<>>
    /\ validation = None
    /\ filepath = None
    /\ document = None
    /\ extracted_text = <<>>
    /\ pending = None
    /\ metadata = None
    /\ verdict = None
    /\ visualizations = None
    /\ email_status = None
    /\ response = None
    /\ log = <<>>
    /\ calls = <<>>

Init ==
    /\ Idle
    /\ uploads = {}
    /\ now = 0
    /\ norm = None
    /\ sweep = None
    /\ batch = None
    /\ script = None

\* The request arrives.
Start ==
    /\ pc = "idle"
    /\ \E fn \in Filenames, size \in Sizes, rcpt \in Recipients :
          req' = [filename |-> fn, size |-> size, recipient_email |-> rcpt]
    /\ pc' = "read"
    /\ UNCHANGED aux
    /\ UNCHANGED <<fname, validation, filepath, document, extracted_text, pending,
                   metadata, verdict, visualizations, email_status, response,
                   log, calls, uploads, now>>

\* STEP 1: await file.read() returns the content.
ReadOk ==
    /\ pc = "read"
    /\ pc' = "validate"
    /\ log' = Append(log, Entry("Read", "ok"))
    /\ UNCHANGED aux
    /\ UNCHANGED <<req, fname, validation, filepath, document, extracted_text,
                   pending, metadata, verdict, visualizations, email_status,
                   response, calls, uploads, now>>

\* STEP 1: file.read() raises.
ReadFail ==
    /\ pc = "read"
    /\ \E c \in Causes :
          response' = HTTPException(400, <<"Failed to read uploaded file", c>>)
    /\ pc' = "done"
    /\ log' = Append(log, Entry("Read", "fail"))
    /\ UNCHANGED aux
    /\ UNCHANGED <<req, fname, validation, filepath, document, extracted_text,
                   pending, metadata, verdict, visualizations, email_status,
                   calls, uploads, now>>

\* file.filename or "unknown.txt"
EffectiveFilename(fn) == IF fn = <<>> THEN <<"u", "n", "k", "n", "o", "w", "n">> \o TXT ELSE fn

\* save_upload: <stem>_<timestamp><suffix> under the uploads directory.
UniquePath(filename, timestamp) ==
    [stem |-> PathStem(filename), timestamp |-> timestamp, ext |-> PathSuffix(filename)]

\* A regular file of the uploads directory: its path, its last-modified time
\* and the upload that wrote it.
FileEntry(path, mtime, owner) ==
    [path |-> path, mtime |-> mtime, kind |-> "file", owner |-> owner]

\* process_uploaded_file writing the temporary file before it validates.
Validate_SavesFirst ==
    /\ pc = "validate"
    /\ fname' = EffectiveFilename(req.filename)
    /\ validation' = validate_file(fname', req.size)
    /\ uploads' = uploads \cup {FileEntry(UniquePath(fname', now), now, <<"request", 0>>)}
    /\ IF validation'.ok
         THEN /\ pc' = "save"
              /\ log' = Append(log, Entry("Validate", "ok"))
              /\ UNCHANGED response
         ELSE /\ pc' = "done"
              /\ log' = Append(log, Entry("Validate", "fail"))
              /\ response' = HTTPException(400, <<validation'.reason>>)
    /\ UNCHANGED aux
    /\ UNCHANGED <<req, filepath, document, extracted_text, pending, metadata,
                   verdict, visualizations, email_status, calls, now>>

\* process_uploaded_file: validate_file; a rejection raises ValueError, which
\* the route turns into a 400.
Validate ==
    /\ pc = "validate"
    /\ fname' = EffectiveFilename(req.filename)
    /\ validation' = validate_file(fname', req.size)
    /\ IF validation'.ok
         THEN /\ pc' = "save"
              /\ log' = Append(log, Entry("Validate", "ok"))
              /\ UNCHANGED response
         ELSE /\ pc' = "done"
              /\ log' = Append(log, Entry("Validate", "fail"))
              /\ response' = HTTPException(400, <<validation'.reason>>)
    /\ UNCHANGED aux
    /\ UNCHANGED <<req, filepath, document, extracted_text, pending, metadata,
                   verdict, visualizations, email_status, calls, uploads, now>>

\* process_uploaded_file: save_upload writes the file.
SaveOk ==
    /\ pc = "save"
    /\ filepath' = UniquePath(fname, now)
    /\ uploads' = {f \in uploads : f.path # filepath'}
                     \cup {FileEntry(filepath', now, <<"request", 0>>)}
    /\ pc' = "extract"
    /\ UNCHANGED aux
    /\ UNCHANGED <<req, fname, validation, document, extracted_text, pending,
                   metadata, verdict, visualizations, email_status, response,
                   log, calls, now>>

\* process_uploaded_file: save_upload raises (the file cannot be written);
\* filepath stays None, so the finally clause deletes nothing.
SaveFail ==
    /\ pc = "save"
    /\ pc' = "done"
    /\ log' = Append(log, Entry("Extract", "fail"))
    /\ response' = HTTPException(500, <<"Failed to extract text from document", "OSError">>)
    /\ UNCHANGED aux
    /\ UNCHANGED <<req, fname, validation, filepath, document, extracted_text,
                   pending, metadata, verdict, visualizations, email_status,
                   calls, uploads, now>>

\* process_uploaded_file: save_upload raises after open() has created the
\* file (the write fails); filepath stays None, so the finally clause
\* deletes nothing and the file stays in the uploads directory.
SaveFailPartial ==
    /\ pc = "save"
    /\ uploads' = {f \in uploads : f.path # UniquePath(fname, now)}
                     \cup {FileEntry(UniquePath(fname, now), now, <<"request", 0>>)}
    /\ pc' = "done"
    /\ log' = Append(log, Entry("Extract", "fail"))
    /\ response' = HTTPException(500, <<"Failed to extract text from document", "OSError">>)
    /\ UNCHANGED aux
    /\ UNCHANGED <<req, fname, validation, filepath, document, extracted_text,
                   pending, metadata, verdict, visualizations, email_status,
                   calls, now>>

\* process_uploaded_file: extract_text on the saved file, then the metadata.
Extract ==
    /\ pc = "extract"
    /\ \E d \in DocsFor(filepath.ext, req.size) :
          LET r == extract_text(filepath.ext, d)
          IN  /\ document' = d
              /\ IF r.ok
                   THEN /\ extracted_text' = r.text
                        /\ metadata' = [original_filename |-> fname,
                                        file_type |-> Lower(filepath.ext),
                                        file_size_bytes |-> req.size,
                                        extracted_length |-> Len(r.text),
                                        extraction_timestamp |-> now]
                        /\ UNCHANGED pending
                   ELSE /\ pending' = r.exc
                        /\ UNCHANGED <<extracted_text, metadata>>
    /\ pc' = "cleanup"
    /\ UNCHANGED aux
    /\ UNCHANGED <<req, fname, validation, filepath, verdict, visualizations,
                   email_status, response, log, calls, uploads, now>>

\* The route reporting whatever process_uploaded_file raised as a 400.
AfterProcess_AnyErrorIs400 ==
    IF pending = None
      THEN /\ pc' = "gate"
           /\ log' = Append(log, Entry("Extract", "ok"))
           /\ UNCHANGED response
      ELSE /\ pc' = "done"
           /\ log' = Append(log, Entry("Extract", "fail"))
           /\ response' = HTTPException(400, pending.msg)

\* What the route does once process_uploaded_file has returned or raised.
AfterProcess ==
    IF pending = None
      THEN /\ pc' = "gate"
           /\ log' = Append(log, Entry("Extract", "ok"))
           /\ UNCHANGED response
      ELSE /\ pc' = "done"
           /\ log' = Append(log, Entry("Extract", "fail"))
           /\ response' = IF IsValueError(pending)
                            THEN HTTPException(400, pending.msg)
                            ELSE HTTPException(500, <<"Failed to extract text from document">>
                                                       \o pending.msg)

\* finally: cleanup_file deletes the saved file.
CleanupOk ==
    /\ pc = "cleanup"
    /\ uploads' = {f \in uploads : f.path # filepath}
    /\ AfterProcess
    /\ UNCHANGED aux
    /\ UNCHANGED <<req, fname, validation, filepath, document, extracted_text,
                   pending, metadata, verdict, visualizations, email_status,
                   calls, now>>

\* finally: cleanup_file fails to delete the file and lets the error out,
\* which the route reports as a failed extraction.
CleanupFail_Raises ==
    /\ pc = "cleanup"
    /\ pc' = "done"
    /\ log' = Append(log, Entry("Extract", "fail"))
    /\ response' = HTTPException(500, <<"Failed to extract text from document", "OSError">>)
    /\ UNCHANGED aux
    /\ UNCHANGED <<req, fname, validation, filepath, document, extracted_text,
                   pending, metadata, verdict, visualizations, email_status,
                   calls, uploads, now>>

\* finally: cleanup_file fails to delete the file and swallows the error.
CleanupFail ==
    /\ pc = "cleanup"
    /\ AfterProcess
    /\ UNCHANGED aux
    /\ UNCHANGED <<req, fname, validation, filepath, document, extracted_text,
                   pending, metadata, verdict, visualizations, email_status,
                   calls, uploads, now>>

\* Minimum number of characters of extracted text the route accepts.
MIN_TEXT_LENGTH == 50

\* "Verify sufficient text was extracted": enough text.
GatePass ==
    /\ pc = "gate"
    /\ ~(Len(extracted_text) < MIN_TEXT_LENGTH)
    /\ pc' = "analyze"
    /\ log' = Append(log, Entry("Gate", "ok"))
    /\ UNCHANGED aux
    /\ UNCHANGED <<req, fname, validation, filepath, document, extracted_text,
                   pending, metadata, verdict, visualizations, email_status,
                   response, calls, uploads, now>>

\* The length gate logging a short text without raising.
GateFailContinues ==
    /\ pc = "gate"
    /\ Len(extracted_text) < MIN_TEXT_LENGTH
    /\ pc' = "analyze"
    /\ log' = Append(log, Entry("Gate", "fail"))
    /\ UNCHANGED aux
    /\ UNCHANGED <<req, fname, validation, filepath, document, extracted_text,
                   pending, metadata, verdict, visualizations, email_status,
                   response, calls, uploads, now>>

\* The length gate rejecting a text of exactly the minimum length.
GateFailAtFifty ==
    /\ pc = "gate"
    /\ Len(extracted_text) <= MIN_TEXT_LENGTH
    /\ pc' = "done"
    /\ log' = Append(log, Entry("Gate", "fail"))
    /\ response' = HTTPException(400, <<"Insufficient text extracted">>)
    /\ UNCHANGED aux
    /\ UNCHANGED <<req, fname, validation, filepath, document, extracted_text,
                   pending, metadata, verdict, visualizations, email_status,
                   calls, uploads, now>>

\* "Verify sufficient text was extracted": too little text, 400.
GateFail ==
    /\ pc = "gate"
    /\ Len(extracted_text) < MIN_TEXT_LENGTH
    /\ pc' = "done"
    /\ log' = Append(log, Entry("Gate", "fail"))
    /\ response' = HTTPException(400, <<"Insufficient text extracted">>)
    /\ UNCHANGED aux
    /\ UNCHANGED <<req, fname, validation, filepath, document, extracted_text,
                   pending, metadata, verdict, visualizations, email_status,
                   calls, uploads, now>>

Returned(value) == [kind |-> "return", value |-> value]
Raises(cause)   == [kind |-> "raise", value |-> cause]

\* One invocation of a collaborator: its arguments and how it ended.
Call(to, args, outcome) == [to |-> to, args |-> args, outcome |-> outcome]

\* STEP 3: the analyzer returns a verdict.
AnalyzeOk ==
    /\ pc = "analyze"
    /\ \E v \in Verdicts :
          /\ verdict' = v
          /\ calls' = Append(calls, Call("analyzer", [text |-> extracted_text], Returned(v)))
    /\ pc' = "visualize"
    /\ log' = Append(log, Entry("Analyze", "ok"))
    /\ UNCHANGED aux
    /\ UNCHANGED <<req, fname, validation, filepath, document, extracted_text,
                   pending, metadata, visualizations, email_status, response,
                   uploads, now>>

\* STEP 3: the analyzer raises, 500.
AnalyzeFail ==
    /\ pc = "analyze"
    /\ \E c \in Causes :
          /\ response' = HTTPException(500, <<"Fraud analysis failed", c>>)
          /\ calls' = Append(calls, Call("analyzer", [text |-> extracted_text], Raises(c)))
    /\ pc' = "done"
    /\ log' = Append(log, Entry("Analyze", "fail"))
    /\ UNCHANGED aux
    /\ UNCHANGED <<req, fname, validation, filepath, document, extracted_text,
                   pending, metadata, verdict, visualizations, email_status,
                   uploads, now>>

RendererArgs ==
    [risk_level |-> verdict.risk_level,
     total_flagged_amount |-> verdict.total_flagged_amount,
     flags |-> verdict.list_of_flags]

\* STEP 4: the renderer returns the path of the dashboard.
VisualizeOk ==
    /\ pc = "visualize"
    /\ \E path \in DashboardPaths :
          /\ visualizations' = [dashboard |-> path]
          /\ calls' = Append(calls, Call("renderer", RendererArgs, Returned(path)))
    /\ pc' = "notify"
    /\ log' = Append(log, Entry("Visualize", "ok"))
    /\ UNCHANGED aux
    /\ UNCHANGED <<req, fname, validation, filepath, document, extracted_text,
                   pending, metadata, verdict, email_status, response, uploads, now>>

\* STEP 4 re-raising the renderer's error as a 500.
VisualizeFailAborts ==
    /\ pc = "visualize"
    /\ \E c \in Causes :
          /\ calls' = Append(calls, Call("renderer", RendererArgs, Raises(c)))
          /\ response' = HTTPException(500, <<"Visualization failed", c>>)
    /\ pc' = "done"
    /\ log' = Append(log, Entry("Visualize", "fail"))
    /\ UNCHANGED aux
    /\ UNCHANGED <<req, fname, validation, filepath, document, extracted_text,
                   pending, metadata, verdict, visualizations, email_status,
                   uploads, now>>

\* STEP 4 building the visualizations dict before the renderer is called.
VisualizeFailKeepsDict ==
    /\ pc = "visualize"
    /\ \E c \in Causes : calls' = Append(calls, Call("renderer", RendererArgs, Raises(c)))
    /\ visualizations' = [dashboard |-> NoneStr]
    /\ pc' = "notify"
    /\ log' = Append(log, Entry("Visualize", "fail"))
    /\ UNCHANGED aux
    /\ UNCHANGED <<req, fname, validation, filepath, document, extracted_text,
                   pending, metadata, verdict, email_status, response, uploads, now>>

\* STEP 4: the renderer raises; the error is logged and visualizations stays None.
VisualizeFail ==
    /\ pc = "visualize"
    /\ \E c \in Causes : calls' = Append(calls, Call("renderer", RendererArgs, Raises(c)))
    /\ pc' = "notify"
    /\ log' = Append(log, Entry("Visualize", "fail"))
    /\ UNCHANGED aux
    /\ UNCHANGED <<req, fname, validation, filepath, document, extracted_text,
                   pending, metadata, verdict, visualizations, email_status,
                   response, uploads, now>>

\* The arguments of the mailer with an empty bundle in place of None.
MailerArgs_EmptyBundle ==
    [recipient_email |-> req.recipient_email,
     risk_level |-> verdict.risk_level,
     summary |-> verdict.summary,
     total_flagged_amount |-> verdict.total_flagged_amount,
     flags |-> verdict.list_of_flags,
     recommendations |-> verdict.recommendations,
     visualizations |-> IF visualizations = None THEN [dashboard |-> NoneStr]
                        ELSE visualizations,
     document_name |-> metadata.original_filename]

\* The arguments of email_service.send_analysis_report_async.
MailerArgs ==
    [recipient_email |-> req.recipient_email,
     risk_level |-> verdict.risk_level,
     summary |-> verdict.summary,
     total_flagged_amount |-> verdict.total_flagged_amount,
     flags |-> verdict.list_of_flags,
     recommendations |-> verdict.recommendations,
     visualizations |-> visualizations,
     document_name |-> metadata.original_filename]

\* dict.get(key, default)
Get(dict, key, default) == IF key \in DOMAIN dict THEN dict[key] ELSE default

\* The except clause of STEP 5.
EmailFailure(cause) ==
    [success |-> FALSE, recipient |-> req.recipient_email, error |-> cause]

\* email_status that does not copy the error of a failed delivery.
EmailStatusDropsError(email_result) ==
    IF "success" \notin DOMAIN email_result
      THEN EmailFailure("KeyError: 'success'")
    ELSE [success |-> email_result["success"], recipient |-> req.recipient_email,
          message |-> Get(email_result, "message", "Email sent successfully")]

\* email_status built from the dict the mailer returned; a dict without
\* "success" raises KeyError, which the except clause of STEP 5 handles.
EmailStatus(email_result) ==
    IF "success" \notin DOMAIN email_result
      THEN EmailFailure("KeyError: 'success'")
    ELSE IF email_result["success"]
      THEN [success |-> TRUE, recipient |-> req.recipient_email,
            message |-> Get(email_result, "message", "Email sent successfully")]
    ELSE [success |-> FALSE, recipient |-> req.recipient_email,
          message |-> Get(email_result, "message", "Email sent successfully"),
          error |-> Get(email_result, "error", NoneStr)]

\* STEP 5 skipped whether or not a recipient was supplied.
NotifySkipAlways ==
    /\ pc = "notify"
    /\ pc' = "assemble"
    /\ log' = Append(log, Entry("Notify", "skip"))
    /\ UNCHANGED aux
    /\ UNCHANGED <<req, fname, validation, filepath, document, extracted_text,
                   pending, metadata, verdict, visualizations, email_status,
                   response, calls, uploads, now>>

\* STEP 5: no recipient, the mailer is not called.
NotifySkip ==
    /\ pc = "notify"
    /\ req.recipient_email = NoneStr
    /\ pc' = "assemble"
    /\ log' = Append(log, Entry("Notify", "skip"))
    /\ UNCHANGED aux
    /\ UNCHANGED <<req, fname, validation, filepath, document, extracted_text,
                   pending, metadata, verdict, visualizations, email_status,
                   response, calls, uploads, now>>

\* STEP 5: the mailer returns a dict.
NotifyReturn ==
    /\ pc = "notify"
    /\ req.recipient_email # NoneStr
    /\ \E email_result \in MailerReturns :
          /\ calls' = Append(calls, Call("mailer", MailerArgs, Returned(email_result)))
          /\ email_status' = EmailStatus(email_result)
          /\ log' = Append(log, Entry("Notify",
                       IF email_status'.success THEN "ok" ELSE "fail"))
    /\ pc' = "assemble"
    /\ UNCHANGED aux
    /\ UNCHANGED <<req, fname, validation, filepath, document, extracted_text,
                   pending, metadata, verdict, visualizations, response,
                   uploads, now>>

\* STEP 5: the mailer raises.
NotifyRaise ==
    /\ pc = "notify"
    /\ req.recipient_email # NoneStr
    /\ \E c \in Causes :
          /\ calls' = Append(calls, Call("mailer", MailerArgs, Raises(c)))
          /\ email_status' = EmailFailure(c)
    /\ pc' = "assemble"
    /\ log' = Append(log, Entry("Notify", "fail"))
    /\ UNCHANGED aux
    /\ UNCHANGED <<req, fname, validation, filepath, document, extracted_text,
                   pending, metadata, verdict, visualizations, response,
                   uploads, now>>

\* The FileUploadResponse reporting the size of the file as the text length.
BuildResponse_FileSize ==
    [filename |-> metadata.original_filename,
     file_type |-> metadata.file_type,
     file_size_bytes |-> metadata.file_size_bytes,
     extracted_text_length |-> metadata.file_size_bytes,
     analysis |->
        [risk_level |-> verdict.risk_level,
         summary |-> verdict.summary,
         list_of_flags |-> verdict.list_of_flags,
         recommendations |-> verdict.recommendations,
         total_flagged_amount |-> verdict.total_flagged_amount,
         document_metadata |->
            [model |-> verdict.document_metadata.model,
             original_filename |-> metadata.original_filename,
             file_type |-> metadata.file_type,
             file_size_bytes |-> metadata.file_size_bytes,
             extraction_timestamp |-> metadata.extraction_timestamp],
         visualizations |-> visualizations,
         email_sent |-> email_status]]

\* STEP 6: the FileUploadResponse.
BuildResponse ==
    [filename |-> metadata.original_filename,
     file_type |-> metadata.file_type,
     file_size_bytes |-> metadata.file_size_bytes,
     extracted_text_length |-> metadata.extracted_length,
     analysis |->
        [risk_level |-> verdict.risk_level,
         summary |-> verdict.summary,
         list_of_flags |-> verdict.list_of_flags,
         recommendations |-> verdict.recommendations,
         total_flagged_amount |-> verdict.total_flagged_amount,
         document_metadata |->
            [model |-> verdict.document_metadata.model,
             original_filename |-> metadata.original_filename,
             file_type |-> metadata.file_type,
             file_size_bytes |-> metadata.file_size_bytes,
             extraction_timestamp |-> metadata.extraction_timestamp],
         visualizations |-> visualizations,
         email_sent |-> email_status]]

\* STEP 6: the response is built and returned, 200.  The verdicts of the data
\* model satisfy the DocumentFraudFlag schema, so the constructors do not raise.
Assemble ==
    /\ pc = "assemble"
    /\ response' = [status |-> 200, detail |-> <<>>, result |-> BuildResponse]
    /\ pc' = "done"
    /\ log' = Append(log, Entry("Assemble", "ok"))
    /\ UNCHANGED aux
    /\ UNCHANGED <<req, fname, validation, filepath, document, extracted_text,
                   pending, metadata, verdict, visualizations, email_status,
                   calls, uploads, now>>

\* Time passes.
Tick ==
    /\ now < MaxClock
    /\ pc # "done"
    /\ now' = now + 1
    /\ UNCHANGED aux
    /\ UNCHANGED <<pc, req, fname, validation, filepath, document, extracted_text,
                   pending, metadata, verdict, visualizations, email_status,
                   response, log, calls, uploads>>

Next ==
    \/ Start \/ ReadOk \/ ReadFail \/ Validate
    \/ SaveOk \/ SaveFail \/ SaveFailPartial \/ Extract \/ CleanupOk \/ CleanupFail
    \/ GatePass \/ GateFail \/ AnalyzeOk \/ AnalyzeFail
    \/ VisualizeOk \/ VisualizeFail
    \/ NotifySkip \/ NotifyReturn \/ NotifyRaise
    \/ Assemble \/ Tick

Spec == Init /\ [][Next]_vars

-----------------------------------------------------------------------------
(* Properties *)

HasEntry(stage, outcome) == \E i \in 1..Len(log) : log[i] = Entry(stage, outcome)

CallsTo(to) == {i \in 1..Len(calls) : calls[i].to = to}

Done == pc = "done"

Succeeded == Done /\ response.status = 200 /\ response.result # None

\* C1: once the analyzer has succeeded, the request ends with a success result
\* (HTTP 200) whatever the renderer and the mailer do: no request is ever
\* answered with an error after a successful analysis.
C1_OptionalStagesNeverFail ==
    /\ (HasEntry("Analyze", "ok") /\ ~Done) => response = None
    /\ (HasEntry("Analyze", "ok") /\ Done) => Succeeded

C1_Witness ==
    /\ Succeeded
    /\ HasEntry("Visualize", "fail")
    /\ \E i \in CallsTo("mailer") : calls[i].outcome.kind = "raise"

Rank(stage) ==
    CASE stage = "Read" -> 0 [] stage = "Validate" -> 1 [] stage = "Extract" -> 2
      [] stage = "Gate" -> 3 [] stage = "Analyze" -> 4 [] stage = "Visualize" -> 5
      [] stage = "Notify" -> 6 [] stage = "Assemble" -> 7

\* The stage that calls each collaborator.
StageOf(to) ==
    CASE to = "analyzer" -> "Analyze" [] to = "renderer" -> "Visualize"
      [] to = "mailer" -> "Notify"

FatalStages == {"Validate", "Extract", "Gate", "Analyze"}

\* C2: the stages of a request run in the order Validate, Extract, length gate,
\* Analyze, Visualize, Notify, Assemble, none before its predecessor has run;
\* when a fatal stage fails it is the last stage of the request, no
\* collaborator of a later stage has been called, and the caller gets one
\* error and no result.
C2_StagesInOrderFatalAborts ==
    /\ \A i \in 1..Len(log) : Rank(log[i].stage) = i - 1
    /\ \A i, j \in 1..Len(calls) :
          i < j => Rank(StageOf(calls[i].to)) < Rank(StageOf(calls[j].to))
    /\ \A k \in 1..Len(calls) : \E i \in 1..Len(log) : log[i].stage = StageOf(calls[k].to)
    /\ \A i \in 1..Len(log) :
          (log[i].stage \in FatalStages /\ log[i].outcome = "fail") =>
             /\ i = Len(log)
             /\ Done
             /\ response # None
             /\ response.status \in {400, 500}
             /\ response.result = None
             /\ \A k \in 1..Len(calls) :
                   Rank(StageOf(calls[k].to)) <= Rank(log[i].stage)
    /\ Done <=> response # None

C2_Witness ==
    /\ Done
    /\ HasEntry("Gate", "fail")
    /\ calls = <<>>
    /\ response.status = 400

\* C3: when the renderer raises after a successful analysis, the request
\* succeeds, the result carries the analyzer's risk level, summary, flags and
\* recommendations, and its visualizations field is None.
C3_VisualizeErrorKeepsVerdict ==
    (Done /\ HasEntry("Visualize", "fail")) =>
        /\ Succeeded
        /\ response.result.analysis.visualizations = None
        /\ \E i \in CallsTo("analyzer") :
              LET v == calls[i].outcome.value
                  a == response.result.analysis
              IN  /\ calls[i].outcome.kind = "return"
                  /\ a.risk_level = v.risk_level
                  /\ a.summary = v.summary
                  /\ a.list_of_flags = v.list_of_flags
                  /\ a.recommendations = v.recommendations

C3_Witness ==
    /\ Succeeded
    /\ HasEntry("Visualize", "fail")
    /\ response.result.analysis.list_of_flags # <<>>
    /\ response.result.analysis.visualizations = None

\* The cause of a failed delivery: what the mailer raised, or the error of the
\* dict it returned.
MailerFailed(call) ==
    \/ call.outcome.kind = "raise"
    \/ "success" \notin DOMAIN call.outcome.value
    \/ ~call.outcome.value["success"]

MailerCause(call) ==
    IF call.outcome.kind = "raise" THEN call.outcome.value
    ELSE IF "success" \notin DOMAIN call.outcome.value THEN "KeyError: 'success'"
    ELSE call.outcome.value["error"]

\* C4: when a recipient is supplied and the mailer raises or returns
\* success=false, the request succeeds and the result's email_sent has
\* success=false, the recipient, and an error field holding the cause.
C4_NotifyFailureReported ==
    \A i \in CallsTo("mailer") :
        (Done /\ req.recipient_email # NoneStr /\ MailerFailed(calls[i])) =>
            /\ Succeeded
            /\ LET e == response.result.analysis.email_sent
               IN  /\ e # None
                   /\ e.success = FALSE
                   /\ e.recipient = req.recipient_email
                   /\ "error" \in DOMAIN e
                   /\ e.error = MailerCause(calls[i])

C4_Witness ==
    /\ Succeeded
    /\ \E i \in CallsTo("mailer") :
          /\ calls[i].outcome.kind = "return"
          /\ "success" \in DOMAIN calls[i].outcome.value
          /\ ~calls[i].outcome.value["success"]
    /\ response.result.analysis.email_sent.success = FALSE

\* C5: without a recipient the mailer is never called and email_sent of the
\* result is absent; with a recipient and a successful analysis the mailer is
\* called exactly once and email_sent is present.
C5_MailerOnlyWithRecipient ==
    /\ Cardinality(CallsTo("mailer")) <= 1
    /\ (req # None /\ req.recipient_email = NoneStr) =>
          /\ CallsTo("mailer") = {}
          /\ Succeeded => response.result.analysis.email_sent = None
    /\ (Done /\ req.recipient_email # NoneStr /\ HasEntry("Analyze", "ok")) =>
          /\ Cardinality(CallsTo("mailer")) = 1
          /\ Succeeded
          /\ response.result.analysis.email_sent # None

C5_Witness ==
    /\ Succeeded
    /\ req.recipient_email = NoneStr
    /\ CallsTo("mailer") = {}
    /\ response.result.analysis.email_sent = None

\* C6: a normalised text shorter than 50 characters ends the request with the
\* length-insufficiency error (400) before the analyzer is called, although
\* extraction succeeded; a normalised text of 50 characters or more passes the
\* gate and reaches Analyze.
C6_LengthGate ==
    \A i \in 1..Len(log) :
        log[i].stage = "Gate" =>
            /\ HasEntry("Extract", "ok")
            /\ extracted_text = normalize_text(extracted_text)
            /\ Len(extracted_text) < 50 =>
                  /\ log[i].outcome = "fail"
                  /\ calls = <<>>
                  /\ Done
                  /\ response = HTTPException(400, <<"Insufficient text extracted">>)
            /\ Len(extracted_text) >= 50 =>
                  /\ log[i].outcome = "ok"
                  /\ pc = "analyze" \/ CallsTo("analyzer") # {}

C6_Witness ==
    /\ HasEntry("Extract", "ok")
    /\ HasEntry("Gate", "fail")
    /\ Len(extracted_text) = 49
    /\ calls = <<>>

\* The filename ends with a dot and one of pdf, docx, txt in any letter case,
\* after a non-empty name.
HasSupportedExtension(fn) ==
    \E e \in { <<"p", "d", "f">>, <<"d", "o", "c", "x">>, <<"t", "x", "t">> } :
        LET k == Len(fn)
        IN  /\ k > Len(e) + 1
            /\ Lower(SubSeq(fn, k - Len(e) + 1, k)) = e
            /\ fn[k - Len(e)] = "."
            /\ fn[k - Len(e) - 1] # "/"

Validated == validation # None

\* C7, as stated: a file of size 0 is rejected with the "empty file" reason
\* whatever the extension of its name.
C7_EmptyWhateverExtension ==
    (Validated /\ req.size = 0) => validation = [ok |-> FALSE, reason |-> ReasonEmpty]

\* C7, amended: a file of size 0 is always rejected; the reason is "empty
\* file" when the extension is supported, and "unsupported type" otherwise.
C7_EmptyRejected ==
    (Validated /\ req.size = 0) =>
        /\ ~validation.ok
        /\ validation.reason =
              IF HasSupportedExtension(fname) THEN ReasonEmpty ELSE ReasonUnsupported

C7_Witness ==
    /\ Validated
    /\ req.size = 0
    /\ HasSupportedExtension(fname)
    /\ validation.reason = ReasonEmpty
    /\ Done

\* C8, as stated: a file larger than 10 MiB is rejected with the "oversized"
\* reason whatever the extension of its name.
C8_OversizedWhateverExtension ==
    (Validated /\ req.size > 10 * 1024 * 1024) =>
        validation = [ok |-> FALSE, reason |-> ReasonTooLarge]

\* C8, amended: a file larger than 10 MiB is always rejected; the reason is
\* "oversized" when the extension is supported, and "unsupported type"
\* otherwise.
C8_OversizedRejected ==
    (Validated /\ req.size > 10 * 1024 * 1024) =>
        /\ ~validation.ok
        /\ validation.reason =
              IF HasSupportedExtension(fname) THEN ReasonTooLarge ELSE ReasonUnsupported

C8_Witness ==
    /\ Validated
    /\ req.size > 10 * 1024 * 1024
    /\ HasSupportedExtension(fname)
    /\ validation.reason = ReasonTooLarge
    /\ Done

\* C9: a filename whose extension is outside pdf, docx, txt in any letter
\* case, or that has no extension, is rejected with the "unsupported type"
\* reason for every file size.
C9_UnsupportedFirst ==
    (Validated /\ ~HasSupportedExtension(fname)) =>
        validation = [ok |-> FALSE, reason |-> ReasonUnsupported]

C9_Witness ==
    /\ Validated
    /\ ~HasSupportedExtension(fname)
    /\ req.size = 0
    /\ validation.reason = ReasonUnsupported
    /\ response.status = 400

\* C10: validate_file accepts exactly the files whose extension is pdf, docx
\* or txt in any letter case and whose size is between 1 and 10 MiB
\* inclusive.
C10_AcceptsExactly ==
    Validated =>
        (validation.ok <=>
            /\ HasSupportedExtension(fname)
            /\ 0 < req.size
            /\ req.size <= 10 * 1024 * 1024)

C10_Witness ==
    /\ Validated
    /\ validation.ok
    /\ req.size = 10 * 1024 * 1024
    /\ PathSuffix(fname) = <<".", "P", "D", "F">>

Extracted == document # None

Paged == filepath # None /\ Lower(filepath.ext) \in {PDF, DOCX}

\* C11: for PDF and DOCX, when the primary strategy raises and the fallback
\* succeeds, extraction returns the normalised text of the fallback alone,
\* without the pages the primary collected, and raises no error.
C11_FallbackAlone ==
    (Extracted /\ Paged /\ document.primary.raises /\ ~document.fallback.raises) =>
        /\ pending = None
        /\ ~HasEntry("Extract", "fail")
        /\ extracted_text = normalize_text(Join(document.fallback.parts, <<NL, NL>>))

C11_Witness ==
    /\ Extracted
    /\ Lower(filepath.ext) = PDF
    /\ document.primary.raises
    /\ document.primary.parts # <<>>
    /\ ~document.fallback.raises
    /\ HasEntry("Extract", "ok")
    /\ Len(extracted_text) = 50

\* C12: when the primary strategy completes without error but yields empty
\* text, the next strategy is tried and its text is the result.
C12_EmptyPrimaryTriesNext ==
    (Extracted /\ Paged /\ ~document.primary.raises /\ ~document.fallback.raises
       /\ normalize_text(Join(NonEmpty(document.primary.parts), <<NL, NL>>)) = <<>>) =>
        extracted_text = normalize_text(Join(document.fallback.parts, <<NL, NL>>))

\* C13: when every strategy of a format fails, the error raised names the
\* cause of every strategy tried, the primary's as well as the fallback's.
C13_AggregatedCause ==
    (Extracted /\ Paged /\ document.primary.raises /\ document.fallback.raises) =>
        /\ pending # None
        /\ \E i \in 1..Len(pending.msg) : pending.msg[i] = document.fallback.cause
        /\ \E i \in 1..Len(pending.msg) : pending.msg[i] = document.primary.cause

-----------------------------------------------------------------------------
(* normalize_text, one call and a second call on its result *)

\* Longest text normalised.
MaxTextLen == 5

NormAlphabet == {"a", SP, NL, TAB, "\r"}

NormInputs == UNION {[1..k -> NormAlphabet] : k \in 0..MaxTextLen}

InitNormalize ==
    /\ Idle
    /\ uploads = {}
    /\ now = 0
    /\ \E t \in NormInputs : norm = [pc |-> "input", text |-> t, once |-> <<>>, twice |-> <<>>]
    /\ sweep = None
    /\ batch = None
    /\ script = None

\* normalize_text(text)
NormalizeOnce ==
    /\ norm.pc = "input"
    /\ norm' = [norm EXCEPT !.pc = "once", !.once = normalize_text(norm.text)]
    /\ UNCHANGED <<pc, req, fname, validation, filepath, document, extracted_text,
                   pending, metadata, verdict, visualizations, email_status,
                   response, log, calls, uploads, now, sweep, batch, script>>

\* normalize_text of the text already normalised
NormalizeTwice ==
    /\ norm.pc = "once"
    /\ norm' = [norm EXCEPT !.pc = "twice", !.twice = normalize_text(norm.once)]
    /\ UNCHANGED <<pc, req, fname, validation, filepath, document, extracted_text,
                   pending, metadata, verdict, visualizations, email_status,
                   response, log, calls, uploads, now, sweep, batch, script>>

NextNormalize == NormalizeOnce \/ NormalizeTwice

SpecNormalize == InitNormalize /\ [][NextNormalize]_vars

\* C14: the output of normalize_text has no blank line and no line of
\* whitespace only, no whitespace at either end of a line, and no two
\* consecutive spaces.
C14_NormalizedShape ==
    norm.pc # "input" =>
        LET out == norm.once
        IN  /\ out # <<>> => ~IsSpace(out[1]) /\ ~IsSpace(out[Len(out)])
            /\ \A i \in 1..Len(out) :
                  out[i] = "\n" => /\ 1 < i /\ i < Len(out)
                                   /\ out[i - 1] \notin {" ", "\t", "\n", "\r"}
                                   /\ out[i + 1] \notin {" ", "\t", "\n", "\r"}
            /\ \A i \in 1..(Len(out) - 1) : ~(out[i] = " " /\ out[i + 1] = " ")

C14_Witness ==
    /\ norm.pc # "input"
    /\ norm.text = <<"a", " ", " ", "a", "\n">>
    /\ norm.once = <<"a", " ", "a">>

\* C15: normalize_text(normalize_text(t)) = normalize_text(t).
C15_Idempotent ==
    norm.pc = "twice" => norm.twice = norm.once

C15_Witness ==
    /\ norm.pc = "twice"
    /\ norm.text = <<"a", "\n", " ", "\n", "a">>
    /\ norm.once = <<"a", "\n", "a">>
    /\ norm.twice = norm.once

-----------------------------------------------------------------------------
(* Temporary storage: cleanup_old_files *)

SecondsPerHour == 3600

\* Instants of the wall clock explored by the storage specifications.
ClockValues == {0, 1, SecondsPerHour, SecondsPerHour + 1}

\* Values of the query parameter max_age_hours.
SweepHours == {-1, 0, 1}

\* Largest number of entries the uploads directory holds initially.
MaxEntries == 2

\* A subdirectory of the uploads directory.
DirEntry(path) == [path |-> path, mtime |-> 0, kind |-> "dir", owner |-> <<"none", 0>>]

LeftoverPath(e) == [stem |-> <<"o", "l", "d">>, timestamp |-> e, ext |-> TXT]

\* Contents of the uploads directory at instant t: each entry is absent, a
\* subdirectory, or a regular file last modified at or before t.
Directories(t) ==
    LET Options == {<<"absent", 0>>, <<"dir", 0>>}
                      \cup {<<"file", m>> : m \in {m \in ClockValues : m <= t}}
        Make(e, o) == IF o[1] = "dir" THEN DirEntry(LeftoverPath(e))
                      ELSE FileEntry(LeftoverPath(e), o[2], <<"earlier", 0>>)
    IN  { {Make(e, choice[e]) : e \in {e \in 1..MaxEntries : choice[e][1] # "absent"}} :
            choice \in [1..MaxEntries -> Options] }

SweepIdle ==
    [pc |-> "idle", max_age_hours |-> 0, current_time |-> 0, start |-> {},
     todo |-> {}, seen |-> {}, deleted |-> 0, removed |-> {}, failed |-> {},
     result |-> None, first |-> None, current |-> None]

\* file_age > max_age_seconds, with max_age_seconds = max_age_hours * 3600,
\* decided with a test that also deletes a file of exactly the maximum age.
Expired_NotStrict(current_time, mtime, max_age_hours) ==
    current_time - mtime >= max_age_hours * SecondsPerHour

\* file_age > max_age_seconds, with max_age_seconds = max_age_hours * 3600
Expired(current_time, mtime, max_age_hours) ==
    current_time - mtime > max_age_hours * SecondsPerHour

\* POST /cleanup: cleanup_old_files reads the clock and lists the directory.
SweepStart ==
    /\ sweep.pc = "idle"
    /\ \E h \in SweepHours :
          sweep' = [SweepIdle EXCEPT !.pc = "scan", !.max_age_hours = h,
                                     !.current_time = now, !.start = uploads,
                                     !.todo = {f.path : f \in uploads}]
    /\ UNCHANGED <<pc, req, fname, validation, filepath, document, extracted_text,
                   pending, metadata, verdict, visualizations, email_status,
                   response, log, calls, uploads, now, norm, batch, script>>

\* The entry of the directory at a path, if any.
EntryAt(path) == {f \in uploads : f.path = path}

Visited(path) ==
    [sweep EXCEPT !.todo = @ \ {path}, !.seen = @ \cup {path}, !.current = None]

\* The entries the loop can take up next: the one whose is_file() has just
\* returned True, else any entry of the listing not yet visited.
SweepPending == IF sweep.current = None THEN sweep.todo ELSE {sweep.current}

\* The loop body on an entry that is not a regular file (or is gone), or on
\* a file that is not old enough.
SweepSkip ==
    /\ sweep.pc = "scan"
    /\ \E path \in SweepPending :
          /\ sweep.current # None => EntryAt(path) # {}
          /\ \A f \in EntryAt(path) :
                \/ f.kind # "file"
                \/ ~Expired(sweep.current_time, f.mtime, sweep.max_age_hours)
          /\ sweep' = Visited(path)
    /\ UNCHANGED <<pc, req, fname, validation, filepath, document, extracted_text,
                   pending, metadata, verdict, visualizations, email_status,
                   response, log, calls, uploads, now, norm, batch, script>>

\* An old file is unlinked and counted, but stays in the directory.
SweepUnlinkOk_KeepsFile ==
    /\ sweep.pc = "scan"
    /\ \E path \in SweepPending :
          \E f \in EntryAt(path) :
             /\ f.kind = "file"
             /\ Expired(sweep.current_time, f.mtime, sweep.max_age_hours)
             /\ sweep' = [Visited(path) EXCEPT
                             !.deleted = @ + 1,
                             !.removed = @ \cup {[file |-> f, at |-> now]}]
    /\ UNCHANGED <<pc, req, fname, validation, filepath, document, extracted_text,
                   pending, metadata, verdict, visualizations, email_status,
                   response, log, calls, uploads, now, norm, batch, script>>

\* The loop body on an old file: unlink succeeds and the file is counted.
SweepUnlinkOk ==
    /\ sweep.pc = "scan"
    /\ \E path \in SweepPending :
          \E f \in EntryAt(path) :
             /\ f.kind = "file"
             /\ Expired(sweep.current_time, f.mtime, sweep.max_age_hours)
             /\ uploads' = uploads \ {f}
             /\ sweep' = [Visited(path) EXCEPT
                             !.deleted = @ + 1,
                             !.removed = @ \cup {[file |-> f, at |-> now]}]
    /\ UNCHANGED <<pc, req, fname, validation, filepath, document, extracted_text,
                   pending, metadata, verdict, visualizations, email_status,
                   response, log, calls, now, norm, batch, script>>

\* The loop body on an old file whose unlink fails, counting it as deleted.
SweepUnlinkFail_Counted ==
    /\ sweep.pc = "scan"
    /\ \E path \in SweepPending :
          /\ \E f \in EntryAt(path) :
                /\ f.kind = "file"
                /\ Expired(sweep.current_time, f.mtime, sweep.max_age_hours)
          /\ sweep' = [Visited(path) EXCEPT !.failed = @ \cup {path},
                                            !.deleted = @ + 1]
    /\ UNCHANGED <<pc, req, fname, validation, filepath, document, extracted_text,
                   pending, metadata, verdict, visualizations, email_status,
                   response, log, calls, uploads, now, norm, batch, script>>

\* The loop body on an old file: unlink raises and the error is swallowed.
SweepUnlinkFail ==
    /\ sweep.pc = "scan"
    /\ \E path \in SweepPending :
          /\ \E f \in EntryAt(path) :
                /\ f.kind = "file"
                /\ Expired(sweep.current_time, f.mtime, sweep.max_age_hours)
          /\ sweep' = [Visited(path) EXCEPT !.failed = @ \cup {path}]
    /\ UNCHANGED <<pc, req, fname, validation, filepath, document, extracted_text,
                   pending, metadata, verdict, visualizations, email_status,
                   response, log, calls, uploads, now, norm, batch, script>>

\* The loop: filepath.is_file() returns True for an entry of the listing.
SweepIsFile ==
    /\ sweep.pc = "scan"
    /\ sweep.current = None
    /\ \E path \in sweep.todo :
          /\ \E f \in EntryAt(path) : f.kind = "file"
          /\ sweep' = [sweep EXCEPT !.current = path]
    /\ UNCHANGED <<pc, req, fname, validation, filepath, document, extracted_text,
                   pending, metadata, verdict, visualizations, email_status,
                   response, log, calls, uploads, now, norm, batch, script>>

\* The loop: filepath.stat() raises FileNotFoundError because the file has
\* gone since is_file(); nothing catches it in cleanup_old_files and the
\* route answers 500.
SweepStatRaises ==
    /\ sweep.pc = "scan"
    /\ sweep.current # None
    /\ EntryAt(sweep.current) = {}
    /\ sweep' = [sweep EXCEPT !.pc = "done",
                              !.result = [success |-> FALSE, status |-> 500,
                                          detail |-> "Cleanup failed"]]
    /\ UNCHANGED <<pc, req, fname, validation, filepath, document, extracted_text,
                   pending, metadata, verdict, visualizations, email_status,
                   response, log, calls, uploads, now, norm, batch, script>>

\* cleanup_old_files returns the count and the route answers 200.
SweepReturn ==
    /\ sweep.pc = "scan"
    /\ sweep.todo = {}
    /\ sweep' = [sweep EXCEPT !.pc = "done",
                              !.result = [success |-> TRUE,
                                          files_deleted |-> sweep.deleted,
                                          max_age_hours |-> sweep.max_age_hours]]
    /\ UNCHANGED <<pc, req, fname, validation, filepath, document, extracted_text,
                   pending, metadata, verdict, visualizations, email_status,
                   response, log, calls, uploads, now, norm, batch, script>>

\* POST /cleanup once more with the same max_age_hours, after the first call
\* has returned: the clock is read and the directory is listed again.
SweepAgain ==
    /\ sweep.pc = "done"
    /\ sweep.first = None
    /\ sweep' = [SweepIdle EXCEPT !.pc = "scan",
                                  !.max_age_hours = sweep.max_age_hours,
                                  !.current_time = now, !.start = uploads,
                                  !.todo = {f.path : f \in uploads},
                                  !.first = sweep]
    /\ UNCHANGED <<pc, req, fname, validation, filepath, document, extracted_text,
                   pending, metadata, verdict, visualizations, email_status,
                   response, log, calls, uploads, now, norm, batch, script>>

\* Time passes.
Elapse ==
    /\ \E t \in ClockValues : t > now /\ now' = t
    /\ UNCHANGED <<pc, req, fname, validation, filepath, document, extracted_text,
                   pending, metadata, verdict, visualizations, email_status,
                   response, log, calls, uploads, norm, sweep, batch, script>>

InitSweep ==
    /\ Idle
    /\ now \in ClockValues
    /\ uploads \in Directories(now)
    /\ norm = None
    /\ sweep = SweepIdle
    /\ batch = None
    /\ script = None

NextSweep ==
    \/ SweepStart \/ SweepSkip \/ SweepUnlinkOk \/ SweepUnlinkFail \/ SweepReturn
    \/ Elapse

\* One sweep of a directory nothing else touches.
SpecSweep == InitSweep /\ [][NextSweep]_vars

\* The regular files the sweep found when it listed the directory.
ListedFiles == {f \in sweep.start : f.kind = "file"}

\* C19: a finished sweep of a directory nothing else touches returns exactly
\* the number of files it deleted, and the directory holds that many entries
\* fewer; a file whose deletion failed is still there and is not counted, and
\* every listed entry was examined whatever failed before it.
C19_SweepCount ==
    sweep.pc = "done" =>
        /\ sweep.result.success
        /\ sweep.result.files_deleted = Cardinality(sweep.removed)
        /\ Cardinality(uploads) = Cardinality(sweep.start) - sweep.result.files_deleted
        /\ sweep.seen = {f.path : f \in sweep.start}
        /\ \A path \in sweep.failed : \E f \in uploads : f.path = path
        /\ \A r \in sweep.removed : r.file.path \notin sweep.failed

C19_Witness ==
    /\ sweep.pc = "done"
    /\ sweep.failed # {}
    /\ sweep.result.files_deleted = 1
    /\ Cardinality(ListedFiles) = 2

\* C20 as stated: after a sweep with max_age_hours = 0 no regular file that
\* was listed is left, whatever its last-modified time (a file whose unlink
\* raised set aside).
C20_SweepZeroDeletesAll ==
    (sweep.pc = "done" /\ sweep.max_age_hours = 0) =>
        \A f \in ListedFiles : f.path \notin sweep.failed => f \notin uploads

\* C20 amended: a sweep with max_age_hours = 0 deletes every listed regular
\* file last modified strictly before the instant the sweep read the clock,
\* unless its unlink raised, and keeps a file modified at that instant.
C20_SweepZeroDeletesOlder ==
    (sweep.pc = "done" /\ sweep.max_age_hours = 0) =>
        \A f \in ListedFiles :
            /\ (f.mtime < sweep.current_time /\ f.path \notin sweep.failed)
                  => f \notin uploads
            /\ f.mtime >= sweep.current_time => f \in uploads

C20_Witness ==
    /\ sweep.pc = "done"
    /\ sweep.max_age_hours = 0
    /\ \E f \in ListedFiles : f.mtime = sweep.current_time /\ f \in uploads
    /\ \E f \in ListedFiles : f.mtime < sweep.current_time /\ f \notin uploads

-----------------------------------------------------------------------------
(* Uploads sharing the uploads directory: process_uploaded_file *)

\* Number of uploads going through process_uploaded_file.
NumUploads == 2

Uploaders == 1..NumUploads

UploadFilenames == {<<"a">> \o PDF, <<"a">> \o TXT}

UploadSize == 60

UploadIdle ==
    [pc |-> "idle", filename |-> <<>>, filepath |-> None, saved_at |-> 0,
     found |-> FALSE, clash |-> FALSE]

\* The owner recorded on the files an upload writes.
Owner(u) == <<"upload", u>>

\* The file at a path belongs to an upload other than u.
Foreign(u, path) == \E f \in EntryAt(path) : f.owner # Owner(u)

\* process_uploaded_file: validate_file accepts the upload.
UploadArrive(u) ==
    /\ batch[u].pc = "idle"
    /\ \E filename \in UploadFilenames :
          /\ validate_file(filename, UploadSize).ok
          /\ batch' = [batch EXCEPT ![u].pc = "save", ![u].filename = filename]
    /\ UNCHANGED <<pc, req, fname, validation, filepath, document, extracted_text,
                   pending, metadata, verdict, visualizations, email_status,
                   response, log, calls, uploads, now, norm, sweep, script>>

\* An upload arrives at a single event loop: process_uploaded_file is a
\* synchronous call, so no other upload is inside it.
UploadArriveInTurn(u) ==
    /\ \A v \in Uploaders \ {u} : batch[v].pc \in {"idle", "done"}
    /\ UploadArrive(u)

\* process_uploaded_file: save_upload writes the file.
UploadSave(u) ==
    /\ batch[u].pc = "save"
    /\ LET path == UniquePath(batch[u].filename, now)
       IN  /\ uploads' = {f \in uploads : f.path # path}
                            \cup {FileEntry(path, now, Owner(u))}
           /\ batch' = [batch EXCEPT ![u].pc = "extract", ![u].filepath = path,
                                     ![u].saved_at = now,
                                     ![u].clash = Foreign(u, path)]
    /\ UNCHANGED <<pc, req, fname, validation, filepath, document, extracted_text,
                   pending, metadata, verdict, visualizations, email_status,
                   response, log, calls, now, norm, sweep, script>>

\* process_uploaded_file: extract_text opens the saved file.
UploadExtract(u) ==
    /\ batch[u].pc = "extract"
    /\ batch' = [batch EXCEPT ![u].pc = "cleanup",
                              ![u].found = EntryAt(batch[u].filepath) # {},
                              ![u].clash = @ \/ Foreign(u, batch[u].filepath)]
    /\ UNCHANGED <<pc, req, fname, validation, filepath, document, extracted_text,
                   pending, metadata, verdict, visualizations, email_status,
                   response, log, calls, uploads, now, norm, sweep, script>>

\* process_uploaded_file: finally, cleanup_file unlinks the file if it exists.
UploadCleanupOk(u) ==
    /\ batch[u].pc = "cleanup"
    /\ uploads' = uploads \ EntryAt(batch[u].filepath)
    /\ batch' = [batch EXCEPT ![u].pc = "done",
                              ![u].clash = @ \/ Foreign(u, batch[u].filepath)]
    /\ UNCHANGED <<pc, req, fname, validation, filepath, document, extracted_text,
                   pending, metadata, verdict, visualizations, email_status,
                   response, log, calls, now, norm, sweep, script>>

\* process_uploaded_file: finally, cleanup_file swallows a failing unlink.
UploadCleanupFail(u) ==
    /\ batch[u].pc = "cleanup"
    /\ EntryAt(batch[u].filepath) # {}
    /\ batch' = [batch EXCEPT ![u].pc = "done"]
    /\ UNCHANGED <<pc, req, fname, validation, filepath, document, extracted_text,
                   pending, metadata, verdict, visualizations, email_status,
                   response, log, calls, uploads, now, norm, sweep, script>>

InitUploads ==
    /\ Idle
    /\ uploads = {}
    /\ now = 0
    /\ norm = None
    /\ sweep = SweepIdle
    /\ batch = [u \in Uploaders |-> UploadIdle]
    /\ script = None

NextUploads ==
    \/ \E u \in Uploaders :
          \/ UploadArriveInTurn(u)
          \/ UploadSave(u)
          \/ UploadExtract(u)
          \/ UploadCleanupOk(u)
          \/ UploadCleanupFail(u)
    \/ Elapse

\* Uploads served one after another by a single event loop.
SpecUploads == InitUploads /\ [][NextUploads]_vars

InitJanitor ==
    /\ Idle
    /\ now = 0
    /\ uploads \in Directories(now)
    /\ norm = None
    /\ sweep = SweepIdle
    /\ batch = [u \in Uploaders |-> UploadIdle]
    /\ script = None

NextJanitor ==
    \/ UploadArrive(1)
    \/ UploadSave(1)
    \/ UploadExtract(1)
    \/ UploadCleanupOk(1)
    \/ UploadCleanupFail(1)
    \/ SweepStart \/ SweepSkip \/ SweepUnlinkOk \/ SweepUnlinkFail \/ SweepReturn
    \/ Elapse

\* A sweep running while an upload is in flight, their steps interleaved.
SpecJanitor == InitJanitor /\ [][NextJanitor]_vars

\* The files an upload saved: it has been given a path.
Saved(u) == batch[u].filepath # None

\* C17 as stated: two uploads never get the same temporary path, and no
\* upload writes, reads or deletes the file of another.
C17_DistinctPaths ==
    \A u, v \in Uploaders :
        (u # v /\ Saved(u) /\ Saved(v)) =>
            /\ batch[u].filepath # batch[v].filepath
            /\ ~batch[u].clash

\* max_age_seconds of the running sweep.
Threshold == sweep.max_age_hours * SecondsPerHour

\* C16: the sweep deletes a file only if its age, now minus last-modified,
\* is strictly greater than the maximum age; and while an upload's
\* extraction has not finished and the maximum age exceeds the time the
\* upload has taken so far, the sweep has not deleted the upload's file.
C16_SweepOnlyOld ==
    /\ sweep.pc # "idle" =>
          \A r \in sweep.removed :
              /\ r.file.kind = "file"
              /\ sweep.current_time - r.file.mtime > Threshold
              /\ r.at - r.file.mtime > Threshold
    /\ \A u \in Uploaders :
          (batch[u].pc = "extract" /\ sweep.pc # "idle"
              /\ Threshold > now - batch[u].saved_at)
          => /\ \A r \in sweep.removed : r.file.owner # Owner(u)
             /\ EntryAt(batch[u].filepath) # {}

C16_Witness ==
    /\ batch[1].pc = "extract"
    /\ sweep.pc = "done"
    /\ sweep.current_time > batch[1].saved_at
    /\ Threshold > now - batch[1].saved_at
    /\ sweep.removed # {}
    /\ batch[1].filepath \in sweep.seen

-----------------------------------------------------------------------------
(* Progress of a request *)

\* The steps the handler takes by itself or on the return of the body
\* read, the analyzer and the renderer: all but the return of the mailer.
HandlerSteps ==
    \/ ReadOk \/ ReadFail \/ Validate
    \/ SaveOk \/ SaveFail \/ SaveFailPartial \/ Extract \/ CleanupOk \/ CleanupFail
    \/ GatePass \/ GateFail \/ AnalyzeOk \/ AnalyzeFail
    \/ VisualizeOk \/ VisualizeFail
    \/ NotifySkip \/ Assemble

\* The handler keeps running and every collaborator but the mailer returns;
\* the await on the mailer ends only when the mailer returns or raises.
SpecLive == Init /\ [][Next]_vars /\ WF_vars(HandlerSteps)

\* C18 as stated: every started request eventually completes, even when the
\* mailer never returns.
C18_EventuallyCompletes == (pc = "read") ~> Done

-----------------------------------------------------------------------------
(* Two sweeps in succession *)

NextSweepTwice == NextSweep \/ SweepAgain

\* Two calls of cleanup_old_files with the same max_age_hours on a directory
\* nothing else touches; any time may pass before, during and between them.
SpecSweepTwice == InitSweep /\ [][NextSweepTwice]_vars

\* The second of two sweeps has returned.
SecondSweepDone == sweep.pc = "done" /\ sweep.first # None

\* C21 as stated: the second of two successive sweeps with the same maximum
\* age deletes nothing and returns 0, whatever time passed between them.
C21_SecondSweepDeletesNothing ==
    SecondSweepDone =>
        /\ sweep.result.files_deleted = 0
        /\ sweep.removed = {}

\* C21 amended: the second sweep deletes only files the first one kept
\* because they were not yet older than the maximum age at its clock reading
\* or because their unlink failed; when the second sweep reads the same clock
\* value as the first and no unlink of the first failed, it deletes nothing
\* and returns 0.
C21_SecondSweepSameInstant ==
    SecondSweepDone =>
        /\ \A r \in sweep.removed :
              \/ r.file.path \in sweep.first.failed
              \/ ~Expired(sweep.first.current_time, r.file.mtime, sweep.max_age_hours)
        /\ (sweep.current_time = sweep.first.current_time /\ sweep.first.failed = {})
              => /\ sweep.result.files_deleted = 0
                 /\ sweep.removed = {}
                 /\ uploads = sweep.start

C21_Witness ==
    /\ SecondSweepDone
    /\ sweep.current_time = sweep.first.current_time
    /\ sweep.first.failed = {}
    /\ sweep.first.removed # {}
    /\ uploads # {}
    /\ sweep.result.files_deleted = 0

-----------------------------------------------------------------------------
(* The temporary file of a request *)

\* The stages that follow process_uploaded_file.
LaterStages == {"gate", "analyze", "visualize", "notify", "assemble"}

\* C22 as stated: no temporary file of the request exists while the stages
\* after process_uploaded_file run.
C22_NoFileAfterExtraction ==
    pc \in LaterStages => EntryAt(filepath) = {}

\* C22 amended: the file is created only once validation has passed; when
\* process_uploaded_file ends, cleanup_file either removes the file or fails
\* and leaves storage as it is, and in both cases the request goes on exactly
\* as the extraction decided (to the length gate after a success, to an error
\* response after a failure); no later stage touches temporary storage.
C22_FileOnlyDuringExtraction ==
    /\ [](pc \in {"idle", "read", "validate", "save"} => uploads = {})
    /\ [][ /\ (pc = "cleanup" /\ pc' # pc) =>
                /\ \/ uploads' = uploads
                   \/ uploads' = uploads \ EntryAt(filepath) /\ EntryAt(filepath) # {}
                /\ pending = None => pc' = "gate" /\ response' = response
                /\ pending # None => /\ pc' = "done"
                                     /\ response'.status \in {400, 500}
                                     /\ response'.result = None
           /\ pc \in LaterStages => uploads' = uploads ]_vars

C22_Witness ==
    /\ Succeeded
    /\ EntryAt(filepath) # {}

-----------------------------------------------------------------------------
(* Status codes *)

\* The request ended at the stage with a failure.
FailedAt(stage) == HasEntry(stage, "fail")

-----------------------------------------------------------------------------
(* Progress of other requests during extraction *)

\* C24 as stated: while one request is in its extraction, another request
\* can take a step.
C24_OthersProgressDuringExtract ==
    \A u, v \in Uploaders :
        (u # v /\ batch[u].pc = "extract" /\ batch[v].pc = "idle")
            => ENABLED UploadArriveInTurn(v)

-----------------------------------------------------------------------------
(* Frame of a rejected validation *)

\* C25: validate_file gives a result for every filename and size, and a
\* request rejected at validation leaves temporary storage as it was: the
\* rejecting step writes and deletes nothing, no path is assigned, and the
\* request ends there with a 400.
C25_RejectionHasNoEffect ==
    /\ [](Validated =>
             /\ validation.ok \in BOOLEAN
             /\ validation = validate_file(fname, req.size)
             /\ ~validation.ok =>
                   validation.reason \in {ReasonUnsupported, ReasonTooLarge, ReasonEmpty})
    /\ [][(pc = "validate" /\ pc' = "done") =>
             /\ uploads' = uploads
             /\ filepath' = None
             /\ response'.status = 400]_vars
    /\ []((Done /\ FailedAt("Validate")) => (uploads = {} /\ filepath = None))

C25_Witness ==
    /\ Done
    /\ FailedAt("Validate")
    /\ validation.reason = ReasonTooLarge
    /\ uploads = {}

-----------------------------------------------------------------------------
(* Reported text length *)

\* C26: in every successful result, extracted_text_length is the length of
\* the normalised text that extract_text returned, which is the text that
\* passed the length gate and was given to the analyzer.
C26_ReportedLength ==
    Succeeded =>
        /\ extracted_text = extract_text(filepath.ext, document).text
        /\ extracted_text = normalize_text(extracted_text)
        /\ ~(Len(extracted_text) < MIN_TEXT_LENGTH)
        /\ CallsTo("analyzer") # {}
        /\ \A i \in CallsTo("analyzer") : calls[i].args.text = extracted_text
        /\ response.result.extracted_text_length = Len(extracted_text)

C26_Witness ==
    /\ Succeeded
    /\ Lower(filepath.ext) = TXT
    /\ ~document.decode["utf-8"].raises
    /\ Len(document.decode["utf-8"].text) > Len(extracted_text)
    /\ req.size > Len(document.decode["utf-8"].text)
    /\ response.result.extracted_text_length = Len(extracted_text)

-----------------------------------------------------------------------------
(* examples/run_email_headless_timeout.py *)

\* email_service.gmail_user and sys.argv[1], when present.
ConfiguredUsers == {NoneStr, "auditor@example.org"}
Arguments       == {NoneStr, "cli@example.org"}

\* What the script prints last.
Printed(kind, value) == [kind |-> kind, value |-> value]

TimedOut == [success |-> FALSE, message |-> "Timed out while sending email"]
NoResult == [success |-> FALSE, message |-> "No result returned"]
NoRecipient == [success |-> FALSE, message |-> "No recipient configured or provided"]

InitExample ==
    /\ Idle
    /\ uploads = {}
    /\ now = 0
    /\ norm = None
    /\ sweep = None
    /\ batch = None
    /\ \E user \in ConfiguredUsers, arg \in Arguments :
          script = [pc |-> "main", gmail_user |-> user, argv |-> arg,
                    recipient |-> NoneStr, thread |-> "none", sender |-> "none",
                    out |-> <<>>, printed |-> <<>>, alive |-> FALSE, exit |-> 0]

\* main: the recipient is the argument if there is one, else gmail_user;
\* without a recipient main prints a message and exits with status 1.
MainNoRecipient ==
    /\ script.pc = "main"
    /\ script.argv = NoneStr
    /\ script.gmail_user = NoneStr
    /\ script' = [script EXCEPT !.pc = "end", !.exit = 1,
                                !.printed = <<Printed("usage", NoRecipient)>>]
    /\ UNCHANGED <<pc, req, fname, validation, filepath, document, extracted_text,
                   pending, metadata, verdict, visualizations, email_status,
                   response, log, calls, uploads, now, norm, sweep, batch>>

\* main: t.start(), then t.join(timeout_seconds) begins.
MainStartThread ==
    /\ script.pc = "main"
    /\ ~(script.argv = NoneStr /\ script.gmail_user = NoneStr)
    /\ script' = [script EXCEPT
                     !.pc = "join",
                     !.recipient = IF script.argv # NoneStr THEN script.argv
                                   ELSE script.gmail_user,
                     !.thread = "running"]
    /\ UNCHANGED <<pc, req, fname, validation, filepath, document, extracted_text,
                   pending, metadata, verdict, visualizations, email_status,
                   response, log, calls, uploads, now, norm, sweep, batch>>

\* The process lives until main returns; the sender is a daemon thread.
ProcessAlive == script.pc \notin {"main", "end"}

\* send_report: the mailer returns and the result is appended to out.
SenderReturns ==
    /\ ProcessAlive
    /\ script.thread = "running"
    /\ \E res \in MailerReturns :
          script' = [script EXCEPT !.thread = "appended", !.sender = "returned",
                                   !.out = Append(@, res)]
    /\ UNCHANGED <<pc, req, fname, validation, filepath, document, extracted_text,
                   pending, metadata, verdict, visualizations, email_status,
                   response, log, calls, uploads, now, norm, sweep, batch>>

\* send_report letting the mailer's exception end the thread.
SenderRaises_Uncaught ==
    /\ ProcessAlive
    /\ script.thread = "running"
    /\ script' = [script EXCEPT !.thread = "finished", !.sender = "raised"]
    /\ UNCHANGED <<pc, req, fname, validation, filepath, document, extracted_text,
                   pending, metadata, verdict, visualizations, email_status,
                   response, log, calls, uploads, now, norm, sweep, batch>>

\* send_report: the mailer raises and the except clause appends a failure.
SenderRaises ==
    /\ ProcessAlive
    /\ script.thread = "running"
    /\ \E c \in Causes :
          script' = [script EXCEPT
                        !.thread = "appended", !.sender = "raised",
                        !.out = Append(@, [success |-> FALSE,
                                           message |-> <<"Exception", c>>])]
    /\ UNCHANGED <<pc, req, fname, validation, filepath, document, extracted_text,
                   pending, metadata, verdict, visualizations, email_status,
                   response, log, calls, uploads, now, norm, sweep, batch>>

\* send_report returns and the thread ends.
SenderEnds ==
    /\ ProcessAlive
    /\ script.thread = "appended"
    /\ script' = [script EXCEPT !.thread = "finished"]
    /\ UNCHANGED <<pc, req, fname, validation, filepath, document, extracted_text,
                   pending, metadata, verdict, visualizations, email_status,
                   response, log, calls, uploads, now, norm, sweep, batch>>

\* t.join(timeout_seconds) returns because the thread has ended.
JoinReturns ==
    /\ script.pc = "join"
    /\ script.thread = "finished"
    /\ script' = [script EXCEPT !.pc = "check"]
    /\ UNCHANGED <<pc, req, fname, validation, filepath, document, extracted_text,
                   pending, metadata, verdict, visualizations, email_status,
                   response, log, calls, uploads, now, norm, sweep, batch>>

\* t.join(timeout_seconds) returns because the timeout has expired.
JoinTimesOut ==
    /\ script.pc = "join"
    /\ script.thread # "finished"
    /\ script' = [script EXCEPT !.pc = "check"]
    /\ UNCHANGED <<pc, req, fname, validation, filepath, document, extracted_text,
                   pending, metadata, verdict, visualizations, email_status,
                   response, log, calls, uploads, now, norm, sweep, batch>>

\* if t.is_alive(): print the timeout failure and return.
CheckAlive ==
    /\ script.pc = "check"
    /\ IF script.thread # "finished"
         THEN script' = [script EXCEPT !.pc = "end", !.alive = TRUE,
                                       !.printed = Append(@, Printed("timeout", TimedOut))]
         ELSE script' = [script EXCEPT !.pc = "result"]
    /\ UNCHANGED <<pc, req, fname, validation, filepath, document, extracted_text,
                   pending, metadata, verdict, visualizations, email_status,
                   response, log, calls, uploads, now, norm, sweep, batch>>

\* if out: print out[0], else print the "No result returned" failure.
PrintResult ==
    /\ script.pc = "result"
    /\ script' = [script EXCEPT
                     !.pc = "end",
                     !.printed = Append(@, IF script.out # <<>>
                                             THEN Printed("result", script.out[1])
                                             ELSE Printed("none", NoResult))]
    /\ UNCHANGED <<pc, req, fname, validation, filepath, document, extracted_text,
                   pending, metadata, verdict, visualizations, email_status,
                   response, log, calls, uploads, now, norm, sweep, batch>>

NextExample ==
    \/ MainNoRecipient \/ MainStartThread
    \/ SenderReturns \/ SenderRaises \/ SenderEnds
    \/ JoinReturns \/ JoinTimesOut \/ CheckAlive \/ PrintResult

SpecExample == InitExample /\ [][NextExample]_vars

\* main has started the sender thread and has returned.
SentAndReturned == script.pc = "end" /\ script.thread # "none"

\* C27: once main has started the sender and returned, it has printed
\* exactly one outcome: the timeout failure exactly when the thread was
\* alive at the is_alive() test, and otherwise the result the sender
\* appended, which for a raising mailer is a success=false result; a thread
\* that has ended has always left a result, so "No result returned" is never
\* printed.
C27_OneOutcome ==
    /\ script.thread = "finished" =>
          /\ Len(script.out) = 1
          /\ script.sender = "raised" => ~script.out[1].success
    /\ SentAndReturned =>
          /\ Len(script.printed) = 1
          /\ script.printed[1].kind = "timeout" <=> script.alive
          /\ script.alive => script.printed[1].value = TimedOut
          /\ ~script.alive =>
                /\ script.thread = "finished"
                /\ script.printed[1].kind = "result"
                /\ script.printed[1].value = script.out[1]

C27_Witness ==
    /\ SentAndReturned
    /\ script.sender = "raised"
    /\ ~script.alive
    /\ script.printed[1].kind = "result"
    /\ ~script.printed[1].value.success

-----------------------------------------------------------------------------
(* A sweep racing the cleanup of an upload *)

NextJanitorRace == NextJanitor \/ SweepIsFile \/ SweepStatRaises

\* A sweep and an upload in different workers: the sweep's is_file(), stat()
\* and unlink() interleave with the upload's save, extract and cleanup.
SpecJanitorRace == InitUploads /\ [][NextJanitorRace]_vars

\* C28 as stated: a sweep running beside an upload always returns a count,
\* even when a listed file disappears before the sweep inspects it.
C28_SweepAlwaysReturns ==
    sweep.pc = "done" =>
        /\ sweep.result.success
        /\ "files_deleted" \in DOMAIN sweep.result

-----------------------------------------------------------------------------
(* Notify after a failed Visualize *)

\* C29: with a recipient, the mailer is invoked even though Visualize
\* failed, and it then receives None as the visualization bundle; the bundle
\* given to the mailer is always the one placed in the returned result.
C29_NotifyAfterFailedVisualize ==
    /\ (FailedAt("Visualize") /\ req.recipient_email # NoneStr
          /\ pc \in {"assemble", "done"}) => CallsTo("mailer") # {}
    /\ \A i \in CallsTo("mailer") :
          /\ calls[i].args.visualizations = visualizations
          /\ FailedAt("Visualize") => calls[i].args.visualizations = None
          /\ Succeeded =>
                calls[i].args.visualizations = response.result.analysis.visualizations

C29_Witness ==
    /\ Succeeded
    /\ FailedAt("Visualize")
    /\ CallsTo("mailer") # {}
    /\ response.result.analysis.visualizations = None

-----------------------------------------------------------------------------
(* The name of the temporary file *)

DigitChars == <<"0", "1", "2", "3", "4", "5", "6", "7", "8", "9">>

RECURSIVE Decimal(_)
\* A natural number in decimal digits.
Decimal(n) ==
    IF n < 10 THEN <<DigitChars[n + 1]>>
    ELSE Decimal(n \div 10) \o <<DigitChars[(n % 10) + 1]>>

\* datetime.now().strftime("%Y%m%d_%H%M%S"): digits around one underscore.
Strftime(t) == Decimal(t \div 60) \o <<"_">> \o Decimal(t % 60)

\* save_upload: f"{safe_filename}_{timestamp}{file_ext}"
unique_filename(filename, t) ==
    PathStem(filename) \o <<"_">> \o Strftime(t) \o PathSuffix(filename)

\* The extractor that handles a format.
ExtractorOf(format, doc) ==
    IF format = PDF THEN extract_text_from_pdf(doc)
    ELSE IF format = DOCX THEN extract_text_from_docx(doc)
    ELSE extract_text_from_txt(doc)

\* C30: for a filename validate_file accepted, the name save_upload builds
\* has the suffix of the filename, which lower-cased is a supported
\* extension; extract_text runs the extractor of that format on the saved
\* file and never raises the ValueError of an unsupported type.
C30_ValidatedIsDispatched ==
    /\ (Validated /\ validation.ok) =>
          \A t \in 0..MaxClock :
              /\ PathSuffix(unique_filename(fname, t)) = PathSuffix(fname)
              /\ Lower(PathSuffix(unique_filename(fname, t))) \in SUPPORTED_EXTENSIONS
    /\ filepath # None =>
          filepath.ext = PathSuffix(unique_filename(fname, filepath.timestamp))
    /\ Extracted =>
          LET format == Lower(PathSuffix(fname))
              r      == ExtractorOf(format, document)
          IN  /\ format \in {PDF, DOCX, TXT}
              /\ extract_text(filepath.ext, document)
                    = IF r.ok THEN Ok(normalize_text(r.text)) ELSE r
              /\ pending # None => ~IsValueError(pending)

C30_Witness ==
    /\ Extracted
    /\ PathSuffix(fname) = <<".", "D", "o", "c", "X">>
    /\ pending = None
    /\ extracted_text # <<>>

====
